---- MODULE Spec2Model ----
(***************************************************************************)
(* EmotiVision: the capture / analyze / reset flow of the EmotionDetector  *)
(* component (webcam + image upload revision).  The React state of the     *)
(* component, the video element's stream, the pending getUserMedia         *)
(* requests, the FileReaders and the classification calls in flight are    *)
(* the state; every event handler and every asynchronous completion is one *)
(* action.  A handler runs to its first suspension point in one step, and  *)
(* the effect that React re-runs after the handler's state changes is part *)
(* of that step.                                                           *)
(***************************************************************************)
EXTENDS Integers, FiniteSets, Sequences, Bags, TLC

\* ------------------------------------------------------------------ bounds

\* classification calls in flight at a time
MaxCalls == 2
\* camera streams requested or running at a time
MaxStreams == 2
\* FileReaders at work at a time
MaxReads == 1
\* the widest and the tallest video a camera delivers, in steps of 16 pixels
MaxVideoWidth == 80
MaxVideoHeight == 45

\* ------------------------------------------------------------- constants

\* null, for a message
None == "null"

\* null, for an object (a result, a File, a data URI)
Null == [null |-> TRUE]

AnalysisModes == {"webcam", "image"}

\* useState<boolean | null>: null, true, false
PermissionStates == {"null", "true", "false"}

maxSizeInBytes == 5 * 1024 * 1024

\* The files a user may pick, a MIME type written <<type, subtype>>: two
\* images within the ceiling (one of exactly the ceiling, one of a type the
\* input's accept list does not name), an image one byte over the ceiling, a
\* non-image, a non-image over the ceiling.
Files ==
    { [name |-> "a.png", type |-> <<"image", "png">>, size |-> maxSizeInBytes],
      [name |-> "b.gif", type |-> <<"image", "gif">>, size |-> 1024],
      [name |-> "c.png", type |-> <<"image", "png">>, size |-> maxSizeInBytes + 1],
      [name |-> "d.txt", type |-> <<"text", "plain">>, size |-> 1024],
      [name |-> "e.pdf", type |-> <<"application", "pdf">>, size |-> maxSizeInBytes + 1] }

\* file.type.startsWith('image/')
IsImageType(type) == type[1] = "image"

\* reader.result of readAsDataURL: data:<mimetype>;base64,<payload>
DataUri(file) == [mime |-> file.type, payload |-> file.name]

\* canvas.toDataURL('image/jpeg', 0.85) of the current frame
FrameUri == [mime |-> <<"image", "jpeg">>, payload |-> "frame"]

\* The sizes of the video a camera may deliver.
VideoSizes ==
    { [videoWidth |-> 16 * i, videoHeight |-> 16 * j] :
         i \in 1..MaxVideoWidth, j \in 1..MaxVideoHeight }

\* const captureWidth = 640
captureWidth == 640

\* captureFrame's sizing of the canvas for a video of size v: the width is
\* captureWidth, the height (videoHeight / videoWidth) * captureWidth, which
\* the assignment to canvas.height truncates to an integer.
CaptureSize(v) ==
    [width |-> captureWidth, height |-> (v.videoHeight * captureWidth) \div v.videoWidth]

\* What the classification flow may resolve with: {emotion, confidence},
\* the confidence a z.number() with no range check, here in thousandths.
Responses ==
    { [emotion |-> "joy", confidence |-> 873],
      [emotion |-> "sad", confidence |-> 1500] }

\* What the classification call may reject with: an Error carrying a
\* message, or a value that is not an Error.
Rejections ==
    { [isError |-> TRUE,  message |-> "Failed to fetch"],
      [isError |-> FALSE, message |-> ""] }

MsgCameraFailed == "Failed to access webcam. Please ensure you have a webcam and grant permissions in your browser settings."
MsgInvalidType == "Invalid file type. Please select an image."
MsgTooLarge == "File size exceeds the limit of 5 MB."
MsgReadFailed == "Failed to read the selected image file."
MsgNoImage == "Please select an image file first."
MsgCameraRequired == "Webcam access is required for live analysis."
MsgCaptureFailed == "Could not capture frame from webcam. Ensure the webcam is active and not obstructed."
MsgUnknown == "An unknown error occurred during analysis."

\* A variant of the message extraction without the fallback text for
\* rejections that are not Errors: C10 tells it apart.
ErrorMessage_NoFallback(err) == err.message

\* err instanceof Error ? err.message : the fallback text.
ErrorMessage(err) == IF err.isError THEN err.message ELSE MsgUnknown

\* ----------------------------------------------------------------- state

VARIABLES
    result,                 \* useState: AnalysisResult or null
    isLoading,              \* useState
    error,                  \* useState: message or null
    hasCameraPermission,    \* useState: "null" | "true" | "false"
    analysisMode,           \* useState: "webcam" | "image"
    selectedImageFile,      \* useState: File or null
    selectedImageDataUri,   \* useState: data URI or null
    showResetButton,        \* useState
    mounted,                \* the component is mounted
    media,                  \* the video element and the camera: [ref, attached, ready, leaked]
    camReqs,                \* getUserMedia requests pending, issued by the effect
    awaiting,               \* getUserMedia requests pending, awaited by handleAnalyzeClick
    readers,                \* FileReaders at work: a bag of [file, phase]
    calls,                  \* classification calls in flight: [fresh, stale]
    detachFirst,            \* host behaviour: the video ref is cleared before the effect cleanup runs
    videoSize,              \* what the camera delivers: [videoWidth, videoHeight]
    ev                      \* the last event handled (observation only)

vars == <<result, isLoading, error, hasCameraPermission, analysisMode,
          selectedImageFile, selectedImageDataUri, showResetButton,
          mounted, media, camReqs, awaiting, readers, calls, detachFirst, videoSize, ev>>

\* media.ref:      videoRef.current is the video element (not null)
\* media.attached: videoRef.current.srcObject is a stream; its tracks run
\* media.ready:    videoRef.current.readyState >= HAVE_METADATA
\* media.leaked:   streams whose tracks run and that no reference reaches
\*                 any more (replaced as srcObject, or gone with an
\*                 unmounted video element)
RunningStreams == media.leaked + (IF media.attached THEN 1 ELSE 0)

\* calls.fresh: calls of the latest attempt (0 or 1)
\* calls.stale: calls of attempts that a mode switch, a reset or a newer
\*              attempt has superseded
InFlight == calls.fresh + calls.stale

\* A mode switch, a reset or a newer attempt supersedes the calls in flight.
Supersede(cs) == [fresh |-> 0, stale |-> cs.fresh + cs.stale]

\* A variant of the disabled attribute that looks at the camera permission
\* and the loading flag only, whatever the mode: C8 tells it apart.
AnalyzeDisabled_WebcamOnly == isLoading \/ hasCameraPermission # "true"

\* A variant of the disabled attribute without the isLoading disjunct: C9
\* tells it apart.
AnalyzeDisabled_NoLoading ==
    \/ (analysisMode = "webcam" /\ hasCameraPermission # "true")
    \/ (analysisMode = "image" /\ selectedImageDataUri = Null)

\* The Analyze button's disabled attribute.
AnalyzeDisabled ==
    \/ isLoading
    \/ (analysisMode = "webcam" /\ hasCameraPermission # "true")
    \/ (analysisMode = "image" /\ selectedImageDataUri = Null)

\* The AlertTitle of the error display, rendered while error is set.
ErrorTitle ==
    IF analysisMode = "webcam" /\ hasCameraPermission = "false"
    THEN "Camera Access Required"
    ELSE "Error"

\* The record kept of the last event: which handler ran and, where it has
\* one, its argument.
Event(op, arg) ==
    [op |-> op, arg |-> arg, wasLoading |-> FALSE, stale |-> FALSE, alone |-> FALSE]

\* The record of a click on the Analyze button: whether the button was
\* enabled, and whether isLoading held when it was clicked.
Click(op) ==
    [op |-> op, arg |-> IF AnalyzeDisabled THEN "disabled" ELSE "enabled",
     wasLoading |-> isLoading, stale |-> FALSE, alone |-> FALSE]

\* The record of a call's completion: the emotion or the message it brought,
\* whether its attempt had been superseded, and whether it completes right
\* after the click that began it.
Completion(op, stored, superseded) ==
    [op |-> op, arg |-> stored, wasLoading |-> isLoading, stale |-> superseded,
     alone |-> ev.op \in {"analyzeClick", "analyzeInvoke"} /\ ev.arg # "disabled" /\ ~superseded]

\* ------------------------------------------------------- camera stream

\* stopWebcamStream: stop the tracks of the attached stream and detach it.
stopWebcamStream(m) ==
    IF m.ref /\ m.attached
    THEN [m EXCEPT !.attached = FALSE, !.ready = FALSE]
    ELSE m

\* videoRef.current.srcObject = stream: the stream attached before, if any,
\* is replaced without being stopped.
Attach(m) ==
    [m EXCEPT !.attached = TRUE, !.ready = FALSE,
              !.leaked = @ + (IF m.attached THEN 1 ELSE 0)]

\* The video element leaves the tree with the stream attached to it still
\* running, and the ref is cleared.
Detach(m) ==
    [m EXCEPT !.ref = FALSE, !.attached = FALSE, !.ready = FALSE,
              !.leaked = @ + (IF m.attached THEN 1 ELSE 0)]

\* The video element is rendered inside the "webcam" tab.  When the host
\* unmounts an inactive tab's content (detachFirst), the ref is cleared at
\* commit, before the effects run; entering the tab mounts a fresh element.
CommitVideo(mode, m) ==
    IF mode = "webcam"
    THEN [m EXCEPT !.ref = TRUE]
    ELSE IF detachFirst THEN Detach(m) ELSE m

\* useEffect with deps [analysisMode, startWebcamStream, stopWebcamStream],
\* startWebcamStream changing with hasCameraPermission: the cleanup of the
\* previous run, then the body.  request: startWebcamStream went past its
\* early return, so it cleared the error, stopped the attached stream and
\* called getUserMedia.
RunEffect(mode, perm, m) ==
    LET cleaned == stopWebcamStream(m)
    IN  IF mode = "webcam"
        THEN IF perm = "false"
             THEN [media |-> cleaned, request |-> FALSE]
             ELSE [media |-> stopWebcamStream(cleaned), request |-> TRUE]
        ELSE [media |-> stopWebcamStream(cleaned), request |-> FALSE]

\* After construction and the mount effect: webcam mode, permission unknown,
\* the first getUserMedia request pending.
Init ==
    /\ result = Null
    /\ isLoading = FALSE
    /\ error = None
    /\ hasCameraPermission = "null"
    /\ analysisMode = "webcam"
    /\ selectedImageFile = Null
    /\ selectedImageDataUri = Null
    /\ showResetButton = FALSE
    /\ mounted = TRUE
    /\ media = [ref |-> TRUE, attached |-> FALSE, ready |-> FALSE, leaked |-> 0]
    /\ camReqs = 1
    /\ awaiting = 0
    /\ readers = EmptyBag
    /\ calls = [fresh |-> 0, stale |-> 0]
    /\ detachFirst \in BOOLEAN
    /\ videoSize = [videoWidth |-> 640, videoHeight |-> 480]
    /\ ev = Event("mount", "")

\* --------------------------------------------------------- camera events

\* The bound on the camera streams requested or running after a step.
WithinStreams == media'.leaked + (IF media'.attached THEN 1 ELSE 0) + camReqs' + awaiting' <= MaxStreams

\* startWebcamStream after `await getUserMedia` resolved with a stream:
\* setHasCameraPermission(true), then attach the stream when the video ref
\* is there, or stop its tracks when the ref is gone.
Granted(m) == IF m.ref THEN Attach(m) ELSE m

\* A getUserMedia request of the effect resolves.  When the permission state
\* changed, the effect re-runs (its deps hold startWebcamStream, which
\* changes with hasCameraPermission).
getUserMediaResolves ==
    /\ camReqs > 0
    /\ LET changed == mounted /\ hasCameraPermission # "true"
           eff == RunEffect(analysisMode, "true", Granted(media))
           issue == changed /\ eff.request
       IN  /\ hasCameraPermission' = IF mounted THEN "true" ELSE hasCameraPermission
           /\ media' = IF changed THEN eff.media ELSE Granted(media)
           /\ camReqs' = camReqs - 1 + (IF issue THEN 1 ELSE 0)
           /\ error' = IF issue THEN None ELSE error
    /\ ev' = Event("cameraGranted", "")
    /\ UNCHANGED <<result, isLoading, analysisMode, selectedImageFile,
                   selectedImageDataUri, showResetButton, mounted, awaiting,
                   readers, calls, detachFirst, videoSize>>
    /\ WithinStreams

\* startWebcamStream's catch: getUserMedia rejected (no hardware, permission
\* denied): setHasCameraPermission(false), setError.  The effect re-runs
\* when the permission state changed; startWebcamStream then returns early.
getUserMediaRejects ==
    /\ camReqs > 0
    /\ LET changed == mounted /\ hasCameraPermission # "false"
           eff == RunEffect(analysisMode, "false", media)
       IN  /\ hasCameraPermission' = IF mounted THEN "false" ELSE hasCameraPermission
           /\ error' = IF mounted THEN MsgCameraFailed ELSE error
           /\ media' = IF changed THEN eff.media ELSE media
    /\ camReqs' = camReqs - 1
    /\ ev' = Event("cameraDenied", "")
    /\ UNCHANGED <<result, isLoading, analysisMode, selectedImageFile,
                   selectedImageDataUri, showResetButton, mounted, awaiting,
                   readers, calls, detachFirst, videoSize>>

\* The video element has loaded the metadata of the attached stream:
\* readyState >= HAVE_METADATA.
loadedMetadata ==
    /\ media.attached
    /\ ~media.ready
    /\ media' = [media EXCEPT !.ready = TRUE]
    /\ UNCHANGED <<result, isLoading, error, hasCameraPermission, analysisMode,
                   selectedImageFile, selectedImageDataUri, showResetButton,
                   mounted, camReqs, awaiting, readers, calls, detachFirst, videoSize, ev>>

\* ------------------------------------------------------ reset, mode switch

\* A variant of handleReset without setIsLoading(false): C4 tells it apart.
handleReset_KeepsLoading ==
    /\ result' = Null
    /\ error' = None
    /\ isLoading' = isLoading
    /\ selectedImageFile' = Null
    /\ selectedImageDataUri' = Null
    /\ showResetButton' = FALSE

\* A variant of handleReset without the two setters of the selection: C15
\* tells it apart.
handleReset_KeepsSelection ==
    /\ result' = Null
    /\ error' = None
    /\ isLoading' = FALSE
    /\ UNCHANGED <<selectedImageFile, selectedImageDataUri>>
    /\ showResetButton' = FALSE

\* handleReset: the six setters.
handleReset ==
    /\ result' = Null
    /\ error' = None
    /\ isLoading' = FALSE
    /\ selectedImageFile' = Null
    /\ selectedImageDataUri' = Null
    /\ showResetButton' = FALSE

\* The Reset button: rendered when showResetButton, disabled when isLoading.
Reset ==
    /\ mounted
    /\ showResetButton
    /\ ~isLoading
    /\ handleReset
    /\ calls' = Supersede(calls)
    /\ ev' = Event("reset", "")
    /\ UNCHANGED <<hasCameraPermission, analysisMode, mounted, media, camReqs,
                   awaiting, readers, detachFirst, videoSize>>

\* handleModeChange (the Tabs' onValueChange, fired for the other tab):
\* setAnalysisMode, handleReset, then the effect re-runs for the new mode;
\* when it starts the webcam, startWebcamStream's setError(null) changes
\* nothing after the reset.
handleModeChange(newMode) ==
    /\ mounted
    /\ newMode # analysisMode
    /\ LET eff == RunEffect(newMode, hasCameraPermission, CommitVideo(newMode, media))
       IN  /\ media' = eff.media
           /\ camReqs' = camReqs + (IF eff.request THEN 1 ELSE 0)
    /\ analysisMode' = newMode
    /\ handleReset
    /\ calls' = Supersede(calls)
    /\ ev' = Event("modeChange", newMode)
    /\ UNCHANGED <<hasCameraPermission, mounted, awaiting, readers, detachFirst, videoSize>>
    /\ WithinStreams

\* The component unmounts: the effect's cleanup runs stopWebcamStream, with
\* the video ref already cleared when the host detaches refs first.  The
\* component's state is discarded with it; the readers and calls still at
\* work find no component to update, and only the pending getUserMedia
\* requests still act (on the stream they obtain).
Unmount ==
    /\ mounted
    /\ mounted' = FALSE
    /\ media' = IF detachFirst THEN Detach(media) ELSE Detach(stopWebcamStream(media))
    /\ handleReset
    /\ readers' = EmptyBag
    /\ calls' = [fresh |-> 0, stale |-> 0]
    /\ camReqs' = camReqs + awaiting
    /\ awaiting' = 0
    /\ ev' = Event("unmount", "")
    /\ UNCHANGED <<hasCameraPermission, analysisMode, detachFirst, videoSize>>

\* ----------------------------------------------------------- file upload

\* One FileReader, as an element of the bag of readers.
One(r) == SetToBag({r})

\* A variant of the validation that refuses a file of exactly the ceiling:
\* C16 tells it apart.
Validate_AtLeast(file) ==
    IF ~IsImageType(file.type) THEN MsgInvalidType
    ELSE IF file.size >= maxSizeInBytes THEN MsgTooLarge
    ELSE None

\* A variant of the validation that checks the size before the type: C28
\* tells it apart.
Validate_SizeFirst(file) ==
    IF file.size > maxSizeInBytes THEN MsgTooLarge
    ELSE IF ~IsImageType(file.type) THEN MsgInvalidType
    ELSE None

\* handleFileChange's validation: the type first, then the size.
Validate(file) ==
    IF ~IsImageType(file.type) THEN MsgInvalidType
    ELSE IF file.size > maxSizeInBytes THEN MsgTooLarge
    ELSE None

\* A variant of handleFileChange whose invalid-file branches also call
\* setResult(null): C17 tells it apart.
handleFileChange_ClearsResult(file) ==
    /\ mounted
    /\ analysisMode = "image"
    /\ ~isLoading
    /\ LET invalid == Validate(file)
       IN  IF invalid # None
           THEN /\ error' = invalid
                /\ selectedImageFile' = Null
                /\ selectedImageDataUri' = Null
                /\ result' = Null
                /\ UNCHANGED <<showResetButton, readers>>
           ELSE /\ BagCardinality(readers) < MaxReads
                /\ selectedImageFile' = file
                /\ error' = None
                /\ result' = Null
                /\ showResetButton' = FALSE
                /\ readers' = readers (+) SetToBag({[file |-> file, phase |-> "queued"]})
                /\ UNCHANGED selectedImageDataUri
    /\ ev' = Event("fileChange", "")
    /\ UNCHANGED <<isLoading, hasCameraPermission, analysisMode, mounted, media,
                   camReqs, awaiting, calls, detachFirst, videoSize>>

\* A variant of handleFileChange whose valid path does not call
\* setResult(null): C21 tells it apart.
handleFileChange_KeepsResult(file) ==
    /\ mounted
    /\ analysisMode = "image"
    /\ ~isLoading
    /\ LET invalid == Validate(file)
       IN  IF invalid # None
           THEN /\ error' = invalid
                /\ selectedImageFile' = Null
                /\ selectedImageDataUri' = Null
                /\ UNCHANGED <<result, showResetButton, readers>>
           ELSE /\ BagCardinality(readers) < MaxReads
                /\ selectedImageFile' = file
                /\ error' = None
                /\ showResetButton' = FALSE
                /\ readers' = readers (+) One([file |-> file, phase |-> "queued"])
                /\ UNCHANGED <<result, selectedImageDataUri>>
    /\ ev' = Event("fileChange", "")
    /\ UNCHANGED <<isLoading, hasCameraPermission, analysisMode, mounted, media,
                   camReqs, awaiting, calls, detachFirst, videoSize>>

\* handleFileChange, reached through the "Select Image" button of the image
\* tab (disabled while isLoading).  An invalid file sets the error and
\* clears the selection; a valid one is stored, error and result are
\* cleared, and a FileReader starts reading it.
handleFileChange(file) ==
    /\ mounted
    /\ analysisMode = "image"
    /\ ~isLoading
    /\ LET invalid == Validate(file)
       IN  IF invalid # None
           THEN /\ error' = invalid
                /\ selectedImageFile' = Null
                /\ selectedImageDataUri' = Null
                /\ UNCHANGED <<result, showResetButton, readers>>
           ELSE /\ BagCardinality(readers) < MaxReads
                /\ selectedImageFile' = file
                /\ error' = None
                /\ result' = Null
                /\ showResetButton' = FALSE
                /\ readers' = readers (+) One([file |-> file, phase |-> "queued"])
                /\ UNCHANGED selectedImageDataUri
    /\ ev' = Event("fileChange", "")
    /\ UNCHANGED <<isLoading, hasCameraPermission, analysisMode, mounted, media,
                   camReqs, awaiting, calls, detachFirst, videoSize>>

\* A FileReader is between its loadstart and its loadend.
Reading == \E r \in BagToSet(readers) : r.phase = "loading"

\* reader.onloadstart: setIsLoading(true).
onloadstart(r) ==
    /\ BagIn(r, readers)
    /\ r.phase = "queued"
    /\ readers' = (readers (-) One(r)) (+) One([r EXCEPT !.phase = "loading"])
    /\ isLoading' = TRUE
    /\ ev' = Event("loadstart", "")
    /\ UNCHANGED <<result, error, hasCameraPermission, analysisMode,
                   selectedImageFile, selectedImageDataUri, showResetButton,
                   mounted, media, camReqs, awaiting, calls, detachFirst, videoSize>>

\* A variant of reader.onloadend without setIsLoading(false): C3 tells it
\* apart.
onloadend_KeepsLoading(r) ==
    /\ BagIn(r, readers)
    /\ r.phase = "loading"
    /\ readers' = readers (-) SetToBag({r})
    /\ selectedImageDataUri' = DataUri(r.file)
    /\ ev' = Event("loadend", "")
    /\ UNCHANGED <<result, isLoading, error, hasCameraPermission, analysisMode,
                   selectedImageFile, showResetButton, mounted, media, camReqs,
                   awaiting, calls, detachFirst, videoSize>>

\* reader.onloadend after a successful read: the data URI is stored.
onloadend(r) ==
    /\ BagIn(r, readers)
    /\ r.phase = "loading"
    /\ readers' = readers (-) One(r)
    /\ selectedImageDataUri' = DataUri(r.file)
    /\ isLoading' = FALSE
    /\ ev' = Event("loadend", "")
    /\ UNCHANGED <<result, error, hasCameraPermission, analysisMode,
                   selectedImageFile, showResetButton, mounted, media, camReqs,
                   awaiting, calls, detachFirst, videoSize>>

\* The four state variables the FileReader's callbacks write, as a record.
ReaderView ==
    [error |-> error, uri |-> selectedImageDataUri, file |-> selectedImageFile,
     isLoading |-> isLoading]

\* The body of reader.onloadend on the view v: reader.result is what the
\* reader holds, null after a failed read.
LoadEndHandler(v, readerResult) ==
    [v EXCEPT !.uri = readerResult, !.isLoading = FALSE]

\* A variant of the body of reader.onerror without
\* setSelectedImageFile(null): C26 tells it apart.
ErrorHandler_KeepsFile(v) ==
    [v EXCEPT !.error = MsgReadFailed, !.uri = Null, !.isLoading = FALSE]

\* The body of reader.onerror on the view v.
ErrorHandler(v) ==
    [v EXCEPT !.error = MsgReadFailed, !.uri = Null, !.file = Null,
              !.isLoading = FALSE]

\* The read fails: reader.onerror and reader.onloadend (reader.result null)
\* run one after the other, in either order.
onerror(r) ==
    /\ BagIn(r, readers)
    /\ r.phase = "loading"
    /\ readers' = readers (-) One(r)
    /\ \E errorFirst \in BOOLEAN :
          LET v == IF errorFirst
                   THEN LoadEndHandler(ErrorHandler(ReaderView), Null)
                   ELSE ErrorHandler(LoadEndHandler(ReaderView, Null))
          IN  /\ error' = v.error
              /\ selectedImageDataUri' = v.uri
              /\ selectedImageFile' = v.file
              /\ isLoading' = v.isLoading
              /\ ev' = Event("readerror", IF errorFirst THEN "error,loadend" ELSE "loadend,error")
    /\ UNCHANGED <<result, hasCameraPermission, analysisMode, showResetButton,
                   mounted, media, camReqs, awaiting, calls, detachFirst, videoSize>>

\* ---------------------------------------------------------------- analyze

\* A variant of captureFrame that checks the ref and the permission but not
\* srcObject and readyState: C24 tells it apart.
captureFrame_NoReadyCheck(encodes) ==
    IF \/ ~media.ref
       \/ hasCameraPermission # "true"
    THEN Null
    ELSE IF encodes THEN FrameUri ELSE Null

\* captureFrame: null unless the video ref is there, the permission is
\* granted, a stream is attached and its metadata is loaded; null too when
\* canvas.toDataURL throws (encodes = FALSE).
captureFrame(encodes) ==
    IF \/ ~media.ref
       \/ hasCameraPermission # "true"
       \/ ~media.attached
       \/ ~media.ready
    THEN Null
    ELSE IF encodes THEN FrameUri ELSE Null

\* A variant of the try block without the check of selectedImageDataUri in
\* image mode: C13 tells it apart.
TryAnalyze_NoImageCheck(encodes) ==
    IF analysisMode = "image"
    THEN [kind |-> "call", message |-> None, photo |-> selectedImageDataUri]
    ELSE IF hasCameraPermission = "false"
         THEN [kind |-> "throw", message |-> MsgCameraRequired, photo |-> Null]
         ELSE IF hasCameraPermission = "null"
              THEN [kind |-> "await", message |-> None, photo |-> Null]
              ELSE IF captureFrame(encodes) = Null
                   THEN [kind |-> "throw", message |-> MsgCaptureFailed, photo |-> Null]
                   ELSE [kind |-> "call", message |-> None, photo |-> captureFrame(encodes)]

\* The try block of handleAnalyzeClick up to its first await that suspends:
\* it throws, it calls the classification flow with a photo, or it awaits
\* the getUserMedia request of startWebcamStream.  With the permission
\* denied startWebcamStream returns at once and the re-check of
\* hasCameraPermission, the value of the render the handler was created in,
\* throws.
TryAnalyze(encodes) ==
    IF analysisMode = "image"
    THEN IF selectedImageDataUri = Null
         THEN [kind |-> "throw", message |-> MsgNoImage, photo |-> Null]
         ELSE [kind |-> "call", message |-> None, photo |-> selectedImageDataUri]
    ELSE IF hasCameraPermission = "false"
         THEN [kind |-> "throw", message |-> MsgCameraRequired, photo |-> Null]
         ELSE IF hasCameraPermission = "null"
              THEN [kind |-> "await", message |-> None, photo |-> Null]
              ELSE IF captureFrame(encodes) = Null
                   THEN [kind |-> "throw", message |-> MsgCaptureFailed, photo |-> Null]
                   ELSE [kind |-> "call", message |-> None, photo |-> captureFrame(encodes)]

\* A variant of handleAnalyzeClick without setError(null): C11 tells it apart.
handleAnalyzeClick_KeepsError(encodes) ==
    LET try == TryAnalyze(encodes)
    IN  /\ try.kind = "call" => InFlight < MaxCalls
        /\ result' = Null
        /\ isLoading' = (try.kind # "throw")
        /\ error' = IF try.kind = "throw" THEN try.message ELSE error
        /\ showResetButton' = (try.kind = "throw")
        /\ calls' = [fresh |-> IF try.kind = "call" THEN 1 ELSE 0,
                     stale |-> InFlight]
        /\ media' = IF try.kind = "await" THEN stopWebcamStream(media) ELSE media
        /\ awaiting' = awaiting + (IF try.kind = "await" THEN 1 ELSE 0)
        /\ UNCHANGED camReqs
        /\ WithinStreams

\* handleAnalyzeClick to its first suspension: setIsLoading(true),
\* setError(null), setResult(null), setShowResetButton(false), the try
\* block, and when it throws before suspending, the catch (setError,
\* setShowResetButton(true)) and the finally (setIsLoading(false)).
handleAnalyzeClick(encodes) ==
    LET try == TryAnalyze(encodes)
    IN  /\ try.kind = "call" => InFlight < MaxCalls
        /\ result' = Null
        /\ isLoading' = (try.kind # "throw")
        /\ error' = try.message
        /\ showResetButton' = (try.kind = "throw")
        /\ calls' = [fresh |-> IF try.kind = "call" THEN 1 ELSE 0,
                     stale |-> InFlight]
        /\ media' = IF try.kind = "await" THEN stopWebcamStream(media) ELSE media
        /\ awaiting' = awaiting + (IF try.kind = "await" THEN 1 ELSE 0)
        /\ UNCHANGED camReqs
        /\ WithinStreams

\* A click on the Analyze button: nothing when the button is disabled,
\* handleAnalyzeClick otherwise.
AnalyzeClick ==
    /\ mounted
    /\ \E encodes \in BOOLEAN :
          IF AnalyzeDisabled
          THEN UNCHANGED <<result, isLoading, error, showResetButton, calls,
                           media, camReqs, awaiting>>
          ELSE handleAnalyzeClick(encodes)
    /\ ev' = Click("analyzeClick")
    /\ UNCHANGED <<hasCameraPermission, analysisMode, selectedImageFile,
                   selectedImageDataUri, mounted, readers, detachFirst, videoSize>>

\* handleAnalyzeClick invoked whatever the button's state.
AnalyzeInvoke ==
    /\ mounted
    /\ \E encodes \in BOOLEAN : handleAnalyzeClick(encodes)
    /\ ev' = Click("analyzeInvoke")
    /\ UNCHANGED <<hasCameraPermission, analysisMode, selectedImageFile,
                   selectedImageDataUri, mounted, readers, detachFirst, videoSize>>

\* The getUserMedia request that a suspended handleAnalyzeClick awaits
\* settles.  startWebcamStream's continuation runs (granted or not), then
\* the handler resumes: its re-check reads the hasCameraPermission of the
\* render it was created in, which was not granted, so it throws, and the
\* catch and the finally run.  Then the effect re-runs when the permission
\* state changed.
AwaitedRequestSettles(granted) ==
    /\ awaiting > 0
    /\ mounted
    /\ LET perm == IF granted THEN "true" ELSE "false"
           changed == hasCameraPermission # perm
           settled == IF granted THEN Granted(media) ELSE media
           eff == RunEffect(analysisMode, perm, settled)
           issue == changed /\ eff.request
       IN  /\ hasCameraPermission' = perm
           /\ media' = IF changed THEN eff.media ELSE settled
           /\ camReqs' = camReqs + (IF issue THEN 1 ELSE 0)
           /\ error' = IF issue THEN None ELSE MsgCameraRequired
    /\ awaiting' = awaiting - 1
    /\ showResetButton' = TRUE
    /\ isLoading' = FALSE
    /\ ev' = Event("analyzeResume", IF granted THEN "granted" ELSE "denied")
    /\ UNCHANGED <<result, analysisMode, selectedImageFile,
                   selectedImageDataUri, mounted, readers, calls, detachFirst, videoSize>>
    /\ WithinStreams

\* A variant of the resolution that drops the response of a superseded
\* call, as a handler comparing attempt identifiers would: C5 tells it apart.
CallResolves_Guarded(superseded, response) ==
    /\ IF superseded THEN calls.stale > 0 ELSE calls.fresh > 0
    /\ calls' = IF superseded
                THEN [calls EXCEPT !.stale = @ - 1]
                ELSE [calls EXCEPT !.fresh = @ - 1]
    /\ result' = IF superseded THEN result ELSE response
    /\ showResetButton' = (showResetButton \/ ~superseded)
    /\ isLoading' = (isLoading /\ superseded)
    /\ ev' = Completion("resolved", response.emotion, superseded)
    /\ UNCHANGED <<error, hasCameraPermission, analysisMode, selectedImageFile,
                   selectedImageDataUri, mounted, media, camReqs, awaiting,
                   readers, detachFirst, videoSize>>

\* `await analyzeEmotionFromImage` resolves, for a call of the latest attempt
\* (superseded = FALSE) or of a superseded one: setResult,
\* setShowResetButton(true), and the finally's setIsLoading(false).  Nothing
\* in the handler tells the two apart.
CallResolves(superseded, response) ==
    /\ IF superseded THEN calls.stale > 0 ELSE calls.fresh > 0
    /\ calls' = IF superseded
                THEN [calls EXCEPT !.stale = @ - 1]
                ELSE [calls EXCEPT !.fresh = @ - 1]
    /\ result' = response
    /\ showResetButton' = TRUE
    /\ isLoading' = FALSE
    /\ ev' = Completion("resolved", response.emotion, superseded)
    /\ UNCHANGED <<error, hasCameraPermission, analysisMode, selectedImageFile,
                   selectedImageDataUri, mounted, media, camReqs, awaiting,
                   readers, detachFirst, videoSize>>

\* A variant of the rejection whose catch also calls stopWebcamStream: C30
\* tells it apart.
CallRejects_StopsStream(superseded, err) ==
    /\ IF superseded THEN calls.stale > 0 ELSE calls.fresh > 0
    /\ calls' = IF superseded
                THEN [calls EXCEPT !.stale = @ - 1]
                ELSE [calls EXCEPT !.fresh = @ - 1]
    /\ error' = ErrorMessage(err)
    /\ showResetButton' = TRUE
    /\ isLoading' = FALSE
    /\ media' = stopWebcamStream(media)
    /\ ev' = Completion("rejected", ErrorMessage(err), superseded)
    /\ UNCHANGED <<result, hasCameraPermission, analysisMode, selectedImageFile,
                   selectedImageDataUri, mounted, camReqs, awaiting,
                   readers, detachFirst, videoSize>>

\* A variant of the rejection without the finally block: C25 tells it
\* apart.
CallRejects_NoFinally(superseded, err) ==
    /\ IF superseded THEN calls.stale > 0 ELSE calls.fresh > 0
    /\ calls' = IF superseded
                THEN [calls EXCEPT !.stale = @ - 1]
                ELSE [calls EXCEPT !.fresh = @ - 1]
    /\ error' = ErrorMessage(err)
    /\ showResetButton' = TRUE
    /\ ev' = Completion("rejected", ErrorMessage(err), superseded)
    /\ UNCHANGED <<result, isLoading, hasCameraPermission, analysisMode,
                   selectedImageFile, selectedImageDataUri, mounted, media,
                   camReqs, awaiting, readers, detachFirst, videoSize>>

\* A variant of the rejection whose catch submits the photo again: C12
\* tells it apart.
CallRejects_Retries(superseded, err) ==
    /\ IF superseded THEN calls.stale > 0 ELSE calls.fresh > 0
    /\ calls' = calls
    /\ error' = ErrorMessage(err)
    /\ showResetButton' = TRUE
    /\ isLoading' = TRUE
    /\ ev' = Completion("rejected", ErrorMessage(err), superseded)
    /\ UNCHANGED <<result, hasCameraPermission, analysisMode, selectedImageFile,
                   selectedImageDataUri, mounted, media, camReqs, awaiting,
                   readers, detachFirst, videoSize>>

\* `await analyzeEmotionFromImage` rejects: the catch's setError and
\* setShowResetButton(true), and the finally's setIsLoading(false).
CallRejects(superseded, err) ==
    /\ IF superseded THEN calls.stale > 0 ELSE calls.fresh > 0
    /\ calls' = IF superseded
                THEN [calls EXCEPT !.stale = @ - 1]
                ELSE [calls EXCEPT !.fresh = @ - 1]
    /\ error' = ErrorMessage(err)
    /\ showResetButton' = TRUE
    /\ isLoading' = FALSE
    /\ ev' = Completion("rejected", ErrorMessage(err), superseded)
    /\ UNCHANGED <<result, hasCameraPermission, analysisMode, selectedImageFile,
                   selectedImageDataUri, mounted, media, camReqs, awaiting,
                   readers, detachFirst, videoSize>>

\* ---------------------------------------------------------- specification

\* The events of a run driven through the rendered controls.
Next ==
    \/ getUserMediaResolves
    \/ getUserMediaRejects
    \/ loadedMetadata
    \/ Reset
    \/ \E newMode \in AnalysisModes : handleModeChange(newMode)
    \/ Unmount
    \/ \E file \in Files : handleFileChange(file)
    \/ \E r \in BagToSet(readers) : onloadstart(r)
    \/ \E r \in BagToSet(readers) : onloadend(r)
    \/ \E r \in BagToSet(readers) : onerror(r)
    \/ AnalyzeClick
    \/ \E superseded \in BOOLEAN, response \in Responses : CallResolves(superseded, response)
    \/ \E superseded \in BOOLEAN, err \in Rejections : CallRejects(superseded, err)

Spec == Init /\ [][Next]_vars

\* The classification flow settles a call in flight: the awaited promise
\* resolves or rejects.
CallSettles ==
    \/ \E superseded \in BOOLEAN, response \in Responses : CallResolves(superseded, response)
    \/ \E superseded \in BOOLEAN, err \in Rejections : CallRejects(superseded, err)

\* The runs of Spec in which the classification flow settles every call: a
\* call in flight is not left pending for ever.  Nothing is assumed of the
\* user, the camera or the FileReader.
SpecFair == Spec /\ WF_vars(CallSettles)

\* The component with the permission granted and the stream of a camera of
\* any size attached, its metadata loaded.
InitCapture ==
    /\ result = Null
    /\ isLoading = FALSE
    /\ error = None
    /\ hasCameraPermission = "true"
    /\ analysisMode = "webcam"
    /\ selectedImageFile = Null
    /\ selectedImageDataUri = Null
    /\ showResetButton = FALSE
    /\ mounted = TRUE
    /\ media = [ref |-> TRUE, attached |-> TRUE, ready |-> TRUE, leaked |-> 0]
    /\ camReqs = 0
    /\ awaiting = 0
    /\ readers = EmptyBag
    /\ calls = [fresh |-> 0, stale |-> 0]
    /\ detachFirst \in BOOLEAN
    /\ videoSize \in VideoSizes
    /\ ev = Event("mount", "")

\* captureFrame past its readiness check: the canvas takes the capture
\* size, which the event record keeps.
CaptureFrame ==
    /\ mounted
    /\ captureFrame(TRUE) # Null
    /\ ev' = Event("captureFrame", CaptureSize(videoSize))
    /\ UNCHANGED <<result, isLoading, error, hasCameraPermission, analysisMode,
                   selectedImageFile, selectedImageDataUri, showResetButton,
                   mounted, media, camReqs, awaiting, readers, calls,
                   detachFirst, videoSize>>

\* captureFrame on its own, applied to a ready stream of each size.
SpecCapture == InitCapture /\ [][CaptureFrame]_vars

\* The same, with handleAnalyzeClick also invoked past the button's guard.
NextInvoked ==
    \/ Next
    \/ AnalyzeInvoke
    \/ \E granted \in BOOLEAN : AwaitedRequestSettles(granted)

SpecInvoked == Init /\ [][NextInvoked]_vars

\* ----------------------------------------------------------------- claims

\* C1: at most one classification call is in flight at any time, whatever
\* the interleaving of user events and asynchronous completions.
C1_AtMostOneCallInFlight == InFlight <= 1

\* C2: AnalysisResult and lastError are never both present.
C2_ResultErrorExclusive == ~(result # Null /\ error # None)

\* C3 as stated: isLoading holds only while an analysis attempt started by
\* handleAnalyzeClick has not finished.
C3_LoadingOnlyDuringAttempt == isLoading => InFlight + awaiting > 0

\* C3 as amended: isLoading holds only while an analysis attempt has not
\* finished or a FileReader is between its loadstart and its loadend.
C3_LoadingOnlyDuringAttemptOrRead == isLoading => (InFlight + awaiting > 0 \/ Reading)

\* C3's case: the loading flag is up for a file read, with no attempt begun.
C3_Witness == isLoading /\ InFlight + awaiting = 0 /\ Reading

\* C4: right after a mode switch, from any prior state, result, error and
\* selection are null, isLoading is false and the mode is the new one.
C4_ModeSwitchResets ==
    ev.op = "modeChange" =>
        /\ result = Null
        /\ error = None
        /\ selectedImageFile = Null
        /\ selectedImageDataUri = Null
        /\ ~isLoading
        /\ analysisMode = ev.arg

\* C4's case: a mode switch made while a classification call was in flight.
C4_Witness == ev.op = "modeChange" /\ calls.stale > 0 /\ analysisMode = "webcam"

\* C5: the completion of a superseded call is applied like any other: on
\* success the response is stored as the result, on failure the message is
\* stored as the error, and isLoading is set to false.
C5_StaleCompletionApplies ==
    /\ (ev.op = "resolved" /\ ev.stale) => (result # Null /\ result.emotion = ev.arg /\ ~isLoading)
    /\ (ev.op = "rejected" /\ ev.stale) => (error = ev.arg /\ ~isLoading)

\* C5's case: a superseded call resolved while a newer attempt is in flight:
\* its result is shown and the loading flag is down.
C5_Witness == ev.op = "resolved" /\ ev.stale /\ calls.fresh = 1 /\ result # Null /\ ~isLoading

\* C6: once away from the webcam mode (image mode, or unmounted) with no
\* getUserMedia request pending, no camera stream has running tracks.
C6_StreamReleasedOnExit ==
    ((analysisMode = "image" \/ ~mounted) /\ camReqs + awaiting = 0) => RunningStreams = 0

\* C7: at most one camera stream with running tracks exists at any time.
C7_AtMostOneRunningStream == RunningStreams <= 1

\* The condition C8 gives for the analyze trigger, with isLoading as given.
C8_Condition(loading) ==
    /\ ~loading
    /\ \/ (analysisMode = "webcam" /\ hasCameraPermission = "true")
       \/ (analysisMode = "image" /\ selectedImageDataUri # Null)

\* C8: the Analyze button is enabled exactly under C8's condition, and a
\* click runs the handler exactly when the condition held at the click.
C8_EnabledExactlyWhen ==
    /\ ~AnalyzeDisabled <=> C8_Condition(isLoading)
    /\ ev.op = "analyzeClick" => (ev.arg = "enabled" <=> C8_Condition(ev.wasLoading))

\* C8's case: a click in image mode with a data URI selected ran the handler.
C8_Witness == ev.op = "analyzeClick" /\ ev.arg = "enabled" /\ analysisMode = "image"

\* C9: a click on Analyze while isLoading holds changes nothing of the
\* controller's state and issues no classification call.
C9_ClickWhileLoadingIsNoOp ==
    [][(isLoading /\ AnalyzeClick) =>
          UNCHANGED <<result, error, isLoading, selectedImageFile,
                      selectedImageDataUri, analysisMode, hasCameraPermission,
                      showResetButton, calls, camReqs, awaiting, media, readers>>]_vars

\* C9's case: Analyze was clicked while a call was in flight and isLoading held.
C9_Witness == ev.op = "analyzeClick" /\ ev.wasLoading /\ InFlight > 0

\* C10: when the call of an attempt rejects with nothing in between,
\* isLoading goes from true to false, the error is a non-empty message and
\* the result is null.
C10_RejectionSetsError ==
    (ev.op = "rejected" /\ ev.alone) =>
        /\ ev.wasLoading
        /\ ~isLoading
        /\ error # None
        /\ error # ""
        /\ result = Null

\* C10's case: a call rejected right after the click that began it.
C10_Witness == ev.op = "rejected" /\ ev.alone

\* C11: an attempt that goes on to call the service has set isLoading and
\* cleared error and result; when its call then resolves with nothing in
\* between, the result is the response, the error is null and isLoading is
\* false.
C11_AttemptThenSuccess ==
    /\ (ev.op = "analyzeClick" /\ ev.arg = "enabled" /\ calls.fresh = 1) =>
          (isLoading /\ error = None /\ result = Null)
    /\ (ev.op = "resolved" /\ ev.alone) =>
          /\ result \in Responses
          /\ result.emotion = ev.arg
          /\ error = None
          /\ ~isLoading
          /\ ev.wasLoading

\* C11's case: the call of an attempt resolved right after the click.
C11_Witness == ev.op = "resolved" /\ ev.alone /\ result # Null

\* C12: the number of calls in flight grows only in a step of the Analyze
\* button, and by one; the rejection of a call takes one call away and
\* issues none.
C12_NoAutomaticRetry ==
    [][/\ InFlight' > InFlight => (AnalyzeClick /\ InFlight' = InFlight + 1)
       /\ (/\ ev'.op = "rejected"
           /\ \E superseded \in BOOLEAN, err \in Rejections : CallRejects(superseded, err))
             => InFlight' = InFlight - 1]_vars

\* C12's case: an attempt failed and no call is in flight afterwards.
C12_Witness == ev.op = "rejected" /\ ev.alone /\ InFlight = 0 /\ ~isLoading

\* C13: handleAnalyzeClick invoked in image mode with no data URI selected
\* ends with the error 'Please select an image file first.', isLoading
\* false and the result null, and issues no classification call.
C13_NoImageSelected ==
    [][(analysisMode = "image" /\ selectedImageDataUri = Null /\ AnalyzeInvoke) =>
          /\ error' = MsgNoImage
          /\ ~isLoading'
          /\ result' = Null
          /\ InFlight' = InFlight
          /\ calls'.fresh = 0]_vars

\* C13's case: the handler was invoked in image mode with nothing selected.
C13_Witness ==
    /\ ev.op = "analyzeInvoke"
    /\ analysisMode = "image"
    /\ selectedImageDataUri = Null
    /\ error = MsgNoImage

\* C14: handleAnalyzeClick invoked in webcam mode with the permission
\* unknown awaits one new camera request; when that request is granted the
\* attempt goes on to the frame capture (a call is issued, or the capture
\* fails), and when it is refused the attempt ends with 'Webcam access is
\* required for live analysis.' and no call is issued.
C14_ReRequestThenProceed ==
    [][/\ (AnalyzeInvoke /\ analysisMode = "webcam" /\ hasCameraPermission = "null")
             => awaiting' = awaiting + 1
       /\ AwaitedRequestSettles(TRUE)
             => (calls'.fresh = 1 \/ error' = MsgCaptureFailed)
       /\ AwaitedRequestSettles(FALSE)
             => (error' = MsgCameraRequired /\ InFlight' = InFlight)]_vars

\* C15: a step of the Reset button ends with result, error, selected file
\* and data URI null and isLoading false, and leaves the mode, the camera
\* permission and the video element's stream as they were.
C15_ResetFrame ==
    [][Reset =>
          /\ result' = Null
          /\ error' = None
          /\ selectedImageFile' = Null
          /\ selectedImageDataUri' = Null
          /\ ~isLoading'
          /\ UNCHANGED <<analysisMode, hasCameraPermission, media, camReqs>>]_vars

\* C15's case: Reset was pressed in webcam mode with a stream attached.
C15_Witness ==
    /\ ev.op = "reset"
    /\ analysisMode = "webcam"
    /\ hasCameraPermission = "true"
    /\ media.attached

C17_InvalidFileKeepsResult ==
    [][\A file \in Files :
          (/\ ev'.op = "fileChange"
           /\ file.type[1] # "image" \/ file.size > 5 * 1024 * 1024
           /\ handleFileChange(file))
             => result' = result]_vars

\* C17's case: an invalid file was selected while a result was shown.
C17_Witness ==
    /\ ev.op = "fileChange"
    /\ error \in {MsgInvalidType, MsgTooLarge}
    /\ result # Null

\* C18: when a camera request is granted in webcam mode and its stream is
\* attached to the video element, the call of startWebcamStream that follows
\* (the effect runs again) issues no new request and leaves the stream
\* attached.
C18_GrantedRequestIsNoOp ==
    [][(getUserMediaResolves /\ mounted /\ analysisMode = "webcam" /\ media.ref) =>
          (camReqs' = camReqs - 1 /\ media'.attached)]_vars

\* C19: while the permission is denied no camera request is issued, except
\* by a switch back to the webcam mode, which issues one.
C19_DeniedUntilReentry ==
    [][(mounted /\ hasCameraPermission = "false") =>
          /\ handleModeChange("webcam") => camReqs' = camReqs + 1
          /\ ~handleModeChange("webcam") => camReqs' <= camReqs]_vars

\* C20: a selected file or data URI is present only in image mode.
C20_SelectionOnlyInImageMode ==
    (selectedImageFile # Null \/ selectedImageDataUri # Null) => analysisMode = "image"

\* C21: the result becomes present, or changes to another present value,
\* only in the step where a classification call resolves, and it is then
\* the response of that call; a result that is present does not survive an
\* enabled click on Analyze, a mode switch, a reset or the selection of a
\* valid file.
C21_ResultOnlyFromSuccess ==
    [][/\ (result' # result /\ result' # Null) =>
             /\ ev'.op = "resolved"
             /\ result' \in Responses
             /\ \E superseded \in BOOLEAN : CallResolves(superseded, result')
       /\ (result # Null /\ result' = result) =>
             /\ ~(ev'.op = "modeChange" /\ \E newMode \in AnalysisModes : handleModeChange(newMode))
             /\ ~(ev'.op = "reset" /\ Reset)
             /\ ~(ev'.op = "analyzeClick" /\ ~AnalyzeDisabled /\ AnalyzeClick)
             /\ ~(ev'.op = "fileChange" /\
                  \E file \in Files :
                     /\ file.type[1] = "image"
                     /\ file.size <= 5 * 1024 * 1024
                     /\ handleFileChange(file))]_vars

\* C21's case: a result is present, stored by the call that just resolved,
\* in image mode with a file selected.
C21_Witness ==
    /\ ev.op = "resolved"
    /\ result # Null
    /\ result.emotion = ev.arg
    /\ analysisMode = "image"
    /\ selectedImageFile # Null

\* C22: a displayed error is titled "Camera Access Required" exactly when
\* it is the message of a failed camera request.
C22_CameraTitleIffCameraFailure ==
    (mounted /\ error # None) =>
        (ErrorTitle = "Camera Access Required" <=> error = MsgCameraFailed)

\* C23: the confidence of a stored result lies in [0, 1], that is within
\* 0..1000 thousandths.
C23_ConfidenceInUnitInterval ==
    result # Null => (result.confidence >= 0 /\ result.confidence <= 1000)

\* C24: an enabled click on Analyze in webcam mode with the permission
\* granted but no stream attached, or a stream whose metadata is not loaded,
\* ends with the capture failure message in error, isLoading false, and no
\* classification call made.
C24_CaptureNeedsReadyStream ==
    (/\ ev.op = "analyzeClick"
     /\ ev.arg = "enabled"
     /\ analysisMode = "webcam"
     /\ hasCameraPermission = "true"
     /\ ~(media.attached /\ media.ready)) =>
        /\ error = MsgCaptureFailed
        /\ ~isLoading
        /\ calls.fresh = 0

\* C24's case: the click came after a switch back to the webcam mode, while
\* the stream request was still pending.
C24_Witness ==
    /\ ev.op = "analyzeClick"
    /\ ev.arg = "enabled"
    /\ analysisMode = "webcam"
    /\ hasCameraPermission = "true"
    /\ ~media.attached
    /\ camReqs > 0
    /\ error = MsgCaptureFailed

C26_ReadFailure ==
    ev.op = "readerror" =>
        /\ error = MsgReadFailed
        /\ selectedImageFile = Null
        /\ selectedImageDataUri = Null
        /\ ~isLoading

\* C26's case: the read failed with the loadend callback run before the
\* error callback.
C26_Witness ==
    /\ ev.op = "readerror"
    /\ ev.arg = "loadend,error"
    /\ error = MsgReadFailed
    /\ selectedImageFile = Null

\* C27: the frame captured from a ready stream of width w and height h is
\* at most 640 wide, its height is h * width / w, and it is no wider than the
\* source.
C27_CaptureSize ==
    ev.op = "captureFrame" =>
        /\ ev.arg.width <= 640
        /\ ev.arg.height = (videoSize.videoHeight * ev.arg.width) \div videoSize.videoWidth
        /\ ev.arg.width <= videoSize.videoWidth

\* C28: the type is checked before the size and the size comparison is
\* strict.  A file that is neither an image nor within the ceiling is refused
\* with the invalid-type error; an image of exactly 5 * 1024 * 1024 bytes is
\* accepted; an image of one byte more is refused with the too-large error.
C28_TypeBeforeSizeStrict ==
    [][ev'.op = "fileChange" =>
          \A file \in Files :
             handleFileChange(file) =>
                /\ (file.type[1] # "image" /\ file.size > 5 * 1024 * 1024) =>
                      error' = MsgInvalidType
                /\ (file.type[1] = "image" /\ file.size = 5 * 1024 * 1024) =>
                      (error' = None /\ selectedImageFile' = file)
                /\ (file.type[1] = "image" /\ file.size = 5 * 1024 * 1024 + 1) =>
                      (error' = MsgTooLarge /\ selectedImageFile' = Null)]_vars

\* C28's case: an image of exactly the ceiling has just been accepted.
C28_Witness ==
    /\ ev.op = "fileChange"
    /\ error = None
    /\ selectedImageFile # Null
    /\ selectedImageFile.size = 5 * 1024 * 1024

\* C29: in image mode, whenever the Analyze button is enabled the selected
\* file and the selected data URI are of the same file.
C29_FileAndUriAgree ==
    (mounted /\ analysisMode = "image" /\ ~AnalyzeDisabled) =>
        /\ selectedImageFile # Null
        /\ selectedImageDataUri = DataUri(selectedImageFile)

\* C30: a failed attempt leaves the mode, the selected file, the selected
\* data URI and the camera stream as they are and ends with isLoading false,
\* so that Analyze is enabled after it whenever it was enabled before it.
\* The failed attempts are the runs of handleAnalyzeClick that throw before
\* suspending (no image, camera required, capture failure) and the
\* rejections of the classification call; after a rejection that follows
\* its click directly, Analyze is enabled as it was at the click.
C30_FailedAttemptFrame ==
    [][(\/ /\ ev'.op \in {"analyzeClick", "analyzeInvoke"}
           /\ error' # None
           /\ \/ (~AnalyzeDisabled /\ AnalyzeClick)
              \/ AnalyzeInvoke
        \/ /\ ev'.op = "rejected"
           /\ \E superseded \in BOOLEAN, err \in Rejections : CallRejects(superseded, err)) =>
          /\ analysisMode' = analysisMode
          /\ selectedImageFile' = selectedImageFile
          /\ selectedImageDataUri' = selectedImageDataUri
          /\ media' = media
          /\ ~isLoading'
          /\ (ev'.op # "rejected" /\ ~AnalyzeDisabled) => ~AnalyzeDisabled'
          /\ (ev'.op = "rejected" /\ ev'.alone) => ~AnalyzeDisabled']_vars

\* C30's case: the call of an attempt on a ready stream has just been
\* rejected; the stream is still attached and ready, and Analyze is enabled.
C30_Witness ==
    /\ ev.op = "rejected"
    /\ ev.alone
    /\ error # None
    /\ analysisMode = "webcam"
    /\ media.attached
    /\ media.ready
    /\ ~AnalyzeDisabled

====
